---- MODULE Spec2Model ----
(***************************************************************************)
(* Model of scripts/extract-session-key.py: extract_session_key() probes   *)
(* the cookie stores of chrome, firefox, edge and chromium in that order   *)
(* and prints one JSON object.  The environment (whether browser_cookie3   *)
(* imports, and what each browser_func call does) is fixed in the initial  *)
(* state; the actions are the steps of the function.                       *)
(***************************************************************************)
EXTENDS Integers, Sequences, FiniteSets, TLC

\* Total number of cookie records held by the four stores together.
MaxCookies == 2

\* Python's None, and the state of a local that is not yet bound.
None == "<None>"

\* Cookie values the stores may hold; the empty string is a legal value.
Values == {"", "v1", "v2"}

\* The records a store may hold: the two names the scan looks for, with any
\* value, and one record it ignores.
CookieRecords ==
    [name : {"sessionKey", "lastActiveOrg"}, value : Values]
        \cup [name : {"intercom-id"}, value : {"v1"}]

\* Variant: the first two entries of the list are exchanged.
browsers_Swapped == <<"firefox", "chrome", "edge", "chromium">>

\* The probing order (the first components of the list `browsers`).
browsers == <<"chrome", "firefox", "edge", "chromium">>

NumBrowsers == Len(browsers)

\* What a call browser_func(domain_name='.claude.ai') can do:
\*   "ok"         returns a jar whose iteration yields `cookies`
\*   "locked"     raises PermissionError
\*   "error"      raises another Exception
\*   "scan_error" returns a jar whose iteration yields `cookies`, then raises
OpenKinds == {"ok", "scan_error"}
FailKinds == {"locked", "error"}
StoreKinds == OpenKinds \cup FailKinds

SeqsUpTo(n) == UNION {[1..k -> CookieRecords] : k \in 0..n}

\* Variant: the test `is not None` instead of truthiness.
Truthy_NotNone(v) == v # None

\* Python truthiness of a str-or-None: `if session_key:` / `if org_id:`.
Truthy(v) == v # None /\ v # ""

\* Variant: organizationId is added whenever org_id is not None.
result_OrgNotNone(name, sk, org) ==
    IF org # None
    THEN [sessionKey |-> sk, browser |-> name, organizationId |-> org]
    ELSE [sessionKey |-> sk, browser |-> name]

\* The dict built at lines 51-56.
result(name, sk, org) ==
    IF Truthy(org)
    THEN [sessionKey |-> sk, browser |-> name, organizationId |-> org]
    ELSE [sessionKey |-> sk, browser |-> name]

MissingCapability ==
    [error |-> "browser_cookie3 not installed",
     install |-> "pip install browser-cookie3"]

NotFoundFailure == [error |-> "No Claude.ai session found in any browser"]

VARIABLES
    capability,   \* TRUE iff `import browser_cookie3` succeeds
    stores,       \* per browser index: the outcome of its browser_func call
    pc,           \* position in extract_session_key
    idx,          \* index of the loop over `browsers`
    cj,           \* the jar returned by the last successful browser_func call
    pos,          \* position of the iteration `for cookie in cj`
    session_key,  \* local accumulator
    org_id,       \* local accumulator
    stdout,       \* lines printed so far
    exit_code,    \* {} while running, then the set holding the exit status
    opens         \* names of the browsers whose browser_func was called

vars == <<capability, stores, pc, idx, cj, pos, session_key, org_id,
          stdout, exit_code, opens>>

env == <<capability, stores>>

Slice(all, lo, hi) == SubSeq(all, lo + 1, hi)

Init ==
    /\ capability \in BOOLEAN
    /\ \E all \in SeqsUpTo(MaxCookies) :
       \E c1 \in 0..Len(all) : \E c2 \in c1..Len(all) : \E c3 \in c2..Len(all) :
       \E kinds \in [1..NumBrowsers -> StoreKinds] :
         LET cuts == <<0, c1, c2, c3, Len(all)>>
             jar(i) == Slice(all, cuts[i], cuts[i + 1])
         IN /\ \A i \in 1..NumBrowsers : kinds[i] \in FailKinds => jar(i) = <<>>
            /\ stores = [i \in 1..NumBrowsers |->
                            [kind |-> kinds[i], cookies |-> jar(i)]]
    /\ pc = "import"
    /\ idx = 1
    /\ cj = <<>>
    /\ pos = 1
    /\ session_key = None
    /\ org_id = None
    /\ stdout = <<>>
    /\ exit_code = {}
    /\ opens = <<>>

\* Lines 22-36: the import succeeds and the list `browsers` is built.
ImportOk ==
    /\ pc = "import"
    /\ capability
    /\ pc' = "loop"
    /\ UNCHANGED <<env, idx, cj, pos, session_key, org_id, stdout, exit_code, opens>>

\* Variant: the failure is printed but sys.exit(1) is missing.
ImportFails_NoExit ==
    /\ pc = "import"
    /\ ~capability
    /\ stdout' = Append(stdout, MissingCapability)
    /\ pc' = "loop"
    /\ UNCHANGED <<env, idx, cj, pos, session_key, org_id, exit_code, opens>>

\* Lines 24-29: ImportError: print the failure and sys.exit(1).
ImportFails ==
    /\ pc = "import"
    /\ ~capability
    /\ stdout' = Append(stdout, MissingCapability)
    /\ exit_code' = {1}
    /\ pc' = "done"
    /\ UNCHANGED <<env, idx, cj, pos, session_key, org_id, opens>>

\* Variant: the accumulators are initialised once, before the loop.
OpenOk_NoReset ==
    /\ pc = "loop"
    /\ idx <= NumBrowsers
    /\ stores[idx].kind \in OpenKinds
    /\ opens' = Append(opens, browsers[idx])
    /\ cj' = stores[idx].cookies
    /\ pos' = 1
    /\ pc' = "scan"
    /\ UNCHANGED <<env, idx, session_key, org_id, stdout, exit_code>>

\* Lines 38-42: browser_func returns a jar; the accumulators are reset.
OpenOk ==
    /\ pc = "loop"
    /\ idx <= NumBrowsers
    /\ stores[idx].kind \in OpenKinds
    /\ opens' = Append(opens, browsers[idx])
    /\ cj' = stores[idx].cookies
    /\ session_key' = None
    /\ org_id' = None
    /\ pos' = 1
    /\ pc' = "scan"
    /\ UNCHANGED <<env, idx, stdout, exit_code>>

\* Variant: PermissionError is not caught and ends the process.
OpenLocked_Aborts ==
    /\ pc = "loop"
    /\ idx <= NumBrowsers
    /\ stores[idx].kind = "locked"
    /\ opens' = Append(opens, browsers[idx])
    /\ exit_code' = {1}
    /\ pc' = "done"
    /\ UNCHANGED <<env, idx, cj, pos, session_key, org_id, stdout>>

\* Lines 40, 60-62: browser_func raises PermissionError; continue.
OpenLocked ==
    /\ pc = "loop"
    /\ idx <= NumBrowsers
    /\ stores[idx].kind = "locked"
    /\ opens' = Append(opens, browsers[idx])
    /\ idx' = idx + 1
    /\ UNCHANGED <<env, pc, cj, pos, session_key, org_id, stdout, exit_code>>

\* Variant: the except clause leaves the loop (break) instead of continuing.
OpenError_Breaks ==
    /\ pc = "loop"
    /\ idx <= NumBrowsers
    /\ stores[idx].kind = "error"
    /\ opens' = Append(opens, browsers[idx])
    /\ idx' = NumBrowsers + 1
    /\ UNCHANGED <<env, pc, cj, pos, session_key, org_id, stdout, exit_code>>

\* Lines 40, 63-65: browser_func raises another Exception; continue.
OpenError ==
    /\ pc = "loop"
    /\ idx <= NumBrowsers
    /\ stores[idx].kind = "error"
    /\ opens' = Append(opens, browsers[idx])
    /\ idx' = idx + 1
    /\ UNCHANGED <<env, pc, cj, pos, session_key, org_id, stdout, exit_code>>

\* Variant: a value is captured only while its accumulator is still None.
ScanCookie_FirstWins ==
    /\ pc = "scan"
    /\ pos <= Len(cj)
    /\ LET cookie == cj[pos]
       IN IF cookie.name = "sessionKey" /\ session_key = None
          THEN session_key' = cookie.value /\ org_id' = org_id
          ELSE IF cookie.name = "lastActiveOrg" /\ org_id = None
               THEN org_id' = cookie.value /\ session_key' = session_key
               ELSE UNCHANGED <<session_key, org_id>>
    /\ pos' = pos + 1
    /\ UNCHANGED <<env, pc, idx, cj, stdout, exit_code, opens>>

\* Lines 44-48: one iteration of `for cookie in cj`.
ScanCookie ==
    /\ pc = "scan"
    /\ pos <= Len(cj)
    /\ LET cookie == cj[pos]
       IN IF cookie.name = "sessionKey"
          THEN session_key' = cookie.value /\ org_id' = org_id
          ELSE IF cookie.name = "lastActiveOrg"
               THEN org_id' = cookie.value /\ session_key' = session_key
               ELSE UNCHANGED <<session_key, org_id>>
    /\ pos' = pos + 1
    /\ UNCHANGED <<env, pc, idx, cj, stdout, exit_code, opens>>

\* Variant: the scan is outside the try block, so its error ends the process.
ScanRaises_Propagates ==
    /\ pc = "scan"
    /\ pos > Len(cj)
    /\ stores[idx].kind = "scan_error"
    /\ exit_code' = {1}
    /\ pc' = "done"
    /\ UNCHANGED <<env, idx, cj, pos, session_key, org_id, stdout, opens>>

\* Variant: the error is caught around the for loop only, so the values
\* captured before it are still tested and printed.
ScanRaises_KeepsValues ==
    /\ pc = "scan"
    /\ pos > Len(cj)
    /\ stores[idx].kind = "scan_error"
    /\ IF Truthy(session_key)
       THEN /\ stdout' = Append(stdout, result(browsers[idx], session_key, org_id))
            /\ exit_code' = {0}
            /\ pc' = "done"
            /\ idx' = idx
       ELSE /\ idx' = idx + 1
            /\ pc' = "loop"
            /\ UNCHANGED <<stdout, exit_code>>
    /\ UNCHANGED <<env, cj, pos, session_key, org_id, opens>>

\* Lines 44, 63-65: the iteration raises; the except clause continues.
ScanRaises ==
    /\ pc = "scan"
    /\ pos > Len(cj)
    /\ stores[idx].kind = "scan_error"
    /\ idx' = idx + 1
    /\ pc' = "loop"
    /\ UNCHANGED <<env, cj, pos, session_key, org_id, stdout, exit_code, opens>>

\* Lines 50-58: the scan is complete and session_key is truthy.
PrintSuccess ==
    /\ pc = "scan"
    /\ pos > Len(cj)
    /\ stores[idx].kind = "ok"
    /\ Truthy(session_key)
    /\ stdout' = Append(stdout, result(browsers[idx], session_key, org_id))
    /\ exit_code' = {0}
    /\ pc' = "done"
    /\ UNCHANGED <<env, idx, cj, pos, session_key, org_id, opens>>

\* Lines 50, 38: the scan is complete and session_key is falsy: next browser.
NoKey ==
    /\ pc = "scan"
    /\ pos > Len(cj)
    /\ stores[idx].kind = "ok"
    /\ ~Truthy(session_key)
    /\ idx' = idx + 1
    /\ pc' = "loop"
    /\ UNCHANGED <<env, cj, pos, session_key, org_id, stdout, exit_code, opens>>

\* Lines 67-68: the loop is exhausted.
PrintNotFound ==
    /\ pc = "loop"
    /\ idx > NumBrowsers
    /\ stdout' = Append(stdout, NotFoundFailure)
    /\ exit_code' = {1}
    /\ pc' = "done"
    /\ UNCHANGED <<env, idx, cj, pos, session_key, org_id, opens>>

Next ==
    \/ ImportOk
    \/ ImportFails
    \/ OpenOk
    \/ OpenLocked
    \/ OpenError
    \/ ScanCookie
    \/ ScanRaises
    \/ PrintSuccess
    \/ NoKey
    \/ PrintNotFound

Spec == Init /\ [][Next]_vars

\* The interpreter runs the function to its end: no step is postponed forever.
FairSpec == Spec /\ WF_vars(Next)

(***************************************************************************)
(* Vocabulary of the properties.  It is stated independently of the        *)
(* operators above, so that the properties do not move with the model.     *)
(***************************************************************************)
FixedOrder == <<"chrome", "firefox", "edge", "chromium">>

Max(S) == CHOOSE m \in S : \A x \in S : x <= m

Positions(jar, n) == {i \in 1..Len(jar) : jar[i].name = n}

HasRecord(jar, n) == Positions(jar, n) # {}

\* Value of the last record named n in scan order, None when there is none.
LastValue(jar, n) ==
    IF HasRecord(jar, n) THEN jar[Max(Positions(jar, n))].value ELSE None

NonEmpty(v) == v \notin {None, ""}

\* The store opens, its scan completes, and the last sessionKey is non-empty.
Yields(i) ==
    /\ stores[i].kind = "ok"
    /\ NonEmpty(LastValue(stores[i].cookies, "sessionKey"))

\* The store opens, its scan completes, and some record is named sessionKey.
Contains(i) ==
    /\ stores[i].kind = "ok"
    /\ HasRecord(stores[i].cookies, "sessionKey")

IsSuccess(line) ==
    DOMAIN line \in {{"sessionKey", "browser"},
                     {"sessionKey", "browser", "organizationId"}}

IsFailure(line) == DOMAIN line \in {{"error"}, {"error", "install"}}

SuccessEmitted == Len(stdout) >= 1 /\ IsSuccess(stdout[1])

Done == pc = "done"

\* Index and jar of the browser named in the emitted Success.
WinnerIdx == CHOOSE i \in 1..Len(FixedOrder) : FixedOrder[i] = stdout[1].browser

WinnerJar == stores[WinnerIdx].cookies

HasOrg(line) == "organizationId" \in DOMAIN line

IsPrefix(s, t) == Len(s) <= Len(t) /\ s = SubSeq(t, 1, Len(s))

NoScanError == \A i \in 1..Len(FixedOrder) : stores[i].kind # "scan_error"

FirstWith(P(_), w) == P(w) /\ \A j \in 1..(w - 1) : ~P(j)

\* The run has ended with a Success naming browser w, having opened exactly
\* the browsers up to w; before that, no browser after w has been opened.
WonBy(w) ==
    /\ IsPrefix(opens, SubSeq(FixedOrder, 1, w))
    /\ Done => /\ Len(stdout) = 1
               /\ IsSuccess(stdout[1])
               /\ stdout[1].browser = FixedOrder[w]
               /\ opens = SubSeq(FixedOrder, 1, w)
               /\ exit_code = {0}

(***************************************************************************)
(* C1 (as stated): with the capability available and every store either    *)
(* opened with some records, locked or unavailable, the first browser in   *)
(* the order whose store contains a record named "sessionKey" is the       *)
(* browser of the emitted Success, and no later browser is opened.         *)
(***************************************************************************)
C1_FirstContainingBrowserWins ==
    (capability /\ NoScanError) =>
        \A w \in 1..Len(FixedOrder) : FirstWith(Contains, w) => WonBy(w)

(***************************************************************************)
(* C1 (amended): with the capability available, the first browser in the   *)
(* order whose store opens, is scanned to completion and has a non-empty   *)
(* value in its last record named "sessionKey" is the browser of the       *)
(* emitted Success, and no later browser is opened.                        *)
(***************************************************************************)
C1_FirstYieldingBrowserWins ==
    capability =>
        \A w \in 1..Len(FixedOrder) : FirstWith(Yields, w) => WonBy(w)

\* The second and the third browser both hold a key; the second has won.
C1_Witness ==
    /\ Done /\ capability
    /\ ~Yields(1) /\ Yields(2) /\ Yields(3)
    /\ SuccessEmitted /\ stdout[1].browser = "firefox"

(***************************************************************************)
(* C2: at most one line is ever printed; the run has ended exactly when    *)
(* one line has been printed and an exit status is set; that line is a     *)
(* Success or a Failure.                                                   *)
(***************************************************************************)
C2_ExactlyOneLine ==
    /\ Len(stdout) <= 1
    /\ Done <=> Len(stdout) = 1
    /\ Done <=> exit_code # {}
    /\ Len(stdout) = 1 => IsSuccess(stdout[1]) \/ IsFailure(stdout[1])

\* A run that met a locked store, a failing store and a failing scan.
C2_Witness ==
    /\ Done /\ Len(stdout) = 1
    /\ \E i, j, k \in 1..Len(opens) :
          /\ stores[i].kind = "locked"
          /\ stores[j].kind = "error"
          /\ stores[k].kind = "scan_error"

(***************************************************************************)
(* C3: without the capability no store is ever opened, and the run ends    *)
(* with the fixed Failure carrying the install hint and exit status 1.     *)
(***************************************************************************)
C3_MissingCapability ==
    ~capability =>
        /\ opens = <<>>
        /\ pc \in {"import", "done"}
        /\ Done => /\ stdout = <<[error |-> "browser_cookie3 not installed",
                                  install |-> "pip install browser-cookie3"]>>
                   /\ exit_code = {1}

\* The capability is missing although the first store holds a key.
C3_Witness == Done /\ ~capability /\ Yields(1) /\ Len(stdout) = 1

(***************************************************************************)
(* C4: a step that opens a store which is locked or fails otherwise prints *)
(* nothing, does not end the run, leaves the accumulators alone, records   *)
(* one open attempt and moves to the next browser, whichever of the two    *)
(* kinds it is; and when a locked store is followed by a store that yields *)
(* a key, no earlier store yielding one, the run ends with a Success       *)
(* naming the follower.                                                    *)
(***************************************************************************)
C4_OpenFailureSkips ==
    /\ [][(pc = "loop" /\ idx <= Len(FixedOrder) /\ stores[idx].kind \in FailKinds)
            => /\ stdout' = stdout
               /\ exit_code' = {}
               /\ pc' = "loop"
               /\ idx' = idx + 1
               /\ opens' = Append(opens, FixedOrder[idx])
               /\ <<session_key, org_id, cj, pos>>' = <<session_key, org_id, cj, pos>>]_vars
    /\ [](\A a \in 1..(Len(FixedOrder) - 1) :
            (/\ Done /\ capability
             /\ stores[a].kind = "locked"
             /\ FirstWith(Yields, a + 1))
            => /\ SuccessEmitted
               /\ stdout[1].browser = FixedOrder[a + 1])

\* Store A is locked, store B holds a key, and B is the browser of the result.
C4_Witness ==
    /\ Done /\ capability
    /\ stores[1].kind = "locked" /\ Yields(2)
    /\ SuccessEmitted /\ stdout[1].browser = "firefox"

(***************************************************************************)
(* C5: with the capability available and no store yielding a key, the run  *)
(* ends with the "not found" Failure, without install hint, and exit       *)
(* status 1; and that Failure is printed only once all four browsers have  *)
(* been opened.                                                            *)
(***************************************************************************)
C5_NotFoundAfterAllTried ==
    /\ (capability /\ Done /\ \A i \in 1..Len(FixedOrder) : ~Yields(i))
          => /\ stdout = <<[error |-> "No Claude.ai session found in any browser"]>>
             /\ exit_code = {1}
    /\ (Len(stdout) >= 1 /\ IsFailure(stdout[1]) /\ ~("install" \in DOMAIN stdout[1]))
          => opens = FixedOrder

\* Every kind of key-less store occurs in one run that ends "not found".
C5_Witness ==
    /\ Done /\ capability /\ Len(stdout) = 1 /\ IsFailure(stdout[1])
    /\ \E i, j, k, l \in 1..Len(FixedOrder) :
          /\ stores[i].kind = "locked"
          /\ stores[j].kind = "error"
          /\ stores[k] = [kind |-> "ok", cookies |-> <<>>]
          /\ stores[l].kind = "ok" /\ stores[l].cookies # <<>>

(***************************************************************************)
(* C6 (as stated): in every Success, organizationId is present iff the     *)
(* winning store contains a record named "lastActiveOrg", and then equals  *)
(* that record's value.                                                    *)
(***************************************************************************)
C6_OrgIffRecord ==
    SuccessEmitted =>
        /\ HasOrg(stdout[1]) <=> HasRecord(WinnerJar, "lastActiveOrg")
        /\ HasOrg(stdout[1]) =>
              stdout[1].organizationId = LastValue(WinnerJar, "lastActiveOrg")

(***************************************************************************)
(* C6 (amended): in every Success, organizationId is present iff the last  *)
(* record named "lastActiveOrg" of the winning store has a non-empty       *)
(* value, and then equals that value.                                      *)
(***************************************************************************)
C6_OrgIffNonEmpty ==
    SuccessEmitted =>
        /\ HasOrg(stdout[1]) <=> NonEmpty(LastValue(WinnerJar, "lastActiveOrg"))
        /\ HasOrg(stdout[1]) =>
              stdout[1].organizationId = LastValue(WinnerJar, "lastActiveOrg")

\* A Success without organizationId from a store with a key and no org record.
C6_Witness ==
    /\ SuccessEmitted
    /\ ~HasOrg(stdout[1])
    /\ ~HasRecord(WinnerJar, "lastActiveOrg")

C8_AccumulatorsReset ==
    /\ pc = "scan" =>
          LET seen == SubSeq(stores[idx].cookies, 1, pos - 1)
          IN /\ session_key = LastValue(seen, "sessionKey")
             /\ org_id = LastValue(seen, "lastActiveOrg")
    /\ SuccessEmitted =>
          /\ stdout[1].browser = FixedOrder[idx]
          /\ stdout[1].sessionKey = LastValue(stores[idx].cookies, "sessionKey")
          /\ IF HasOrg(stdout[1])
             THEN stdout[1].organizationId =
                      LastValue(stores[idx].cookies, "lastActiveOrg")
             ELSE ~NonEmpty(LastValue(stores[idx].cookies, "lastActiveOrg"))

\* An earlier store held a lastActiveOrg and no key; the Success of a later
\* store carries no organizationId.
C8_Witness ==
    /\ SuccessEmitted
    /\ ~HasOrg(stdout[1])
    /\ \E j \in 1..(WinnerIdx - 1) :
          /\ stores[j].kind \in OpenKinds
          /\ NonEmpty(LastValue(stores[j].cookies, "lastActiveOrg"))

(***************************************************************************)
(* C9: the open attempts always form a prefix of chrome, firefox, edge,    *)
(* chromium (so each store is opened at most once and at most four are),   *)
(* and every run eventually ends with a line printed.                      *)
(***************************************************************************)
C9_SequentialAndTerminates ==
    /\ [](IsPrefix(opens, FixedOrder))
    /\ <>(Done /\ Len(stdout) = 1)

\* A run that ended after opening all four stores.
C9_Witness == Done /\ opens = FixedOrder

(***************************************************************************)
(* C10: a browser whose scan raises is never the browser of a Success, the *)
(* run goes on to the next browser (or to "not found" after the last), and *)
(* a Success is printed only when the scan of its store is complete.       *)
(***************************************************************************)
C10_AllOrNothing ==
    /\ SuccessEmitted =>
          /\ stores[WinnerIdx].kind = "ok"
          /\ WinnerIdx = idx
          /\ pos = Len(WinnerJar) + 1
    /\ \A i \in 1..Len(opens) :
          (Done /\ stores[i].kind = "scan_error") =>
              /\ Len(stdout) = 1
              /\ IsSuccess(stdout[1]) => stdout[1].browser # FixedOrder[i]
              /\ IF i < Len(FixedOrder)
                 THEN Len(opens) > i
                 ELSE IsFailure(stdout[1])

\* A store whose scan raised after a non-empty sessionKey had been seen.
C10_Witness ==
    /\ Done
    /\ \E i \in 1..Len(opens) :
          /\ stores[i].kind = "scan_error"
          /\ NonEmpty(LastValue(stores[i].cookies, "sessionKey"))
====
